---- MODULE Spec2Model ----
(***************************************************************************)
(* ISS tracker (iss_tracker.py): the epoch query and speed computation     *)
(* functions, as a state machine over one upstream document.               *)
(*                                                                         *)
(* Text is a sequence of one-character strings.  A datetime is a record of *)
(* its fields, a timedelta the normalised (days, seconds, microseconds)    *)
(* triple CPython keeps.  A raised exception is a value of kind "error"    *)
(* carrying the exception type and what its message interpolates.          *)
(* Velocities are drawn from integer triples with a perfect-square norm,   *)
(* on which math.sqrt is exact; a float quotient is kept as the reduced    *)
(* fraction it rounds.  float(text) of the document's numeric fields and   *)
(* the logging calls are outside the state.                                *)
(***************************************************************************)
EXTENDS Integers, Sequences, FiniteSets, TLC

VARIABLES xml, data, loaded, pc, op, args, result, stdout

vars == <<xml, data, loaded, pc, op, args, result, stdout>>

(***************************************************************************)
(* Bounds of the model.                                                    *)
(***************************************************************************)
MaxLen == 3

MaxTrail == 2

(***************************************************************************)
(* Characters.                                                             *)
(***************************************************************************)
DigitSeq == <<"0", "1", "2", "3", "4", "5", "6", "7", "8", "9">>

Digits == {DigitSeq[i] : i \in 1..10}

DigitVal(c) == (CHOOSE i \in 1..10 : DigitSeq[i] = c) - 1

DigitsFrom(lo, hi) == {DigitSeq[i + 1] : i \in lo..hi}

\* re.IGNORECASE, under which _strptime compiles every format: a letter of the
\* format matches either case of it.
Upper(c) == CASE c = "t" -> "T" [] c = "z" -> "Z" [] c = "x" -> "X" [] OTHER -> c

\* int() of a run of digits, an optional leading blank skipped (int(" 3") = 3).
RECURSIVE IntOf(_)
IntOf(w) ==
    IF w = <<>> THEN 0
    ELSE IF w[Len(w)] = " " THEN 0
    ELSE 10 * IntOf(SubSeq(w, 1, Len(w) - 1)) + DigitVal(w[Len(w)])

(***************************************************************************)
(* _strptime's regular expressions: each directive is an ordered list of   *)
(* alternatives, each alternative a sequence of character classes.         *)
(***************************************************************************)
D == Digits

Regex(d) ==
    CASE d = "Y" -> << <<D, D, D, D>> >>
      [] d = "j" -> << <<{"3"}, {"6"}, DigitsFrom(0, 6)>>,
                       <<{"3"}, DigitsFrom(0, 5), D>>,
                       <<DigitsFrom(1, 2), D, D>>,
                       <<{"0"}, DigitsFrom(1, 9), D>>,
                       <<{"0"}, {"0"}, DigitsFrom(1, 9)>>,
                       <<DigitsFrom(1, 9), D>>,
                       <<{"0"}, DigitsFrom(1, 9)>>,
                       <<DigitsFrom(1, 9)>> >>
      [] d = "m" -> << <<{"1"}, DigitsFrom(0, 2)>>,
                       <<{"0"}, DigitsFrom(1, 9)>>,
                       <<DigitsFrom(1, 9)>> >>
      [] d = "d" -> << <<{"3"}, DigitsFrom(0, 1)>>,
                       <<DigitsFrom(1, 2), D>>,
                       <<{"0"}, DigitsFrom(1, 9)>>,
                       <<DigitsFrom(1, 9)>>,
                       <<{" "}, DigitsFrom(1, 9)>> >>
      [] d = "H" -> << <<{"2"}, DigitsFrom(0, 3)>>,
                       <<DigitsFrom(0, 1), D>>,
                       <<D>> >>
      [] d = "M" -> << <<DigitsFrom(0, 5), D>>, <<D>> >>
      [] d = "S" -> << <<{"6"}, DigitsFrom(0, 1)>>,
                       <<DigitsFrom(0, 5), D>>,
                       <<D>> >>
      [] d = "f" -> << <<D, D, D, D, D, D>>, <<D, D, D, D, D>>, <<D, D, D, D>>,
                       <<D, D, D>>, <<D, D>>, <<D>> >>

\* A token of a format: a directive (%Y ...) or a literal character.
Dir(d) == [dir |-> d, lit |-> ""]

Lit(c) == [dir |-> "", lit |-> c]

OrdinalDate == <<Dir("Y"), Lit("-"), Dir("j")>>

CalendarDate == <<Dir("Y"), Lit("-"), Dir("m"), Lit("-"), Dir("d")>>

ClockTime == <<Lit("T"), Dir("H"), Lit(":"), Dir("M"), Lit(":"), Dir("S")>>

FractionPart == <<Lit("."), Dir("f")>>

\* The four layouts, in the order they are tried.
formats ==
    << OrdinalDate \o ClockTime \o FractionPart \o <<Lit("Z")>>,
       OrdinalDate \o ClockTime \o <<Lit("Z")>>,
       CalendarDate \o ClockTime \o FractionPart \o <<Lit("Z")>>,
       CalendarDate \o ClockTime \o <<Lit("Z")>> >>

NoMatch == [ok |-> FALSE, groups |-> <<>>, rest |-> <<>>]

MatchAlt(alt, s) ==
    /\ Len(s) >= Len(alt)
    /\ \A i \in 1..Len(alt) : s[i] \in alt[i]

\* format_regex.match(data_string): a match anchored at the start only, the
\* alternatives of a directive tried in order with backtracking.
RECURSIVE MatchFrom(_, _, _)
RECURSIVE TryAlts(_, _, _, _, _)
MatchFrom(toks, s, groups) ==
    IF toks = <<>> THEN [ok |-> TRUE, groups |-> groups, rest |-> s]
    ELSE LET t == Head(toks) IN
         IF t.dir = ""
         THEN IF s # <<>> /\ Upper(Head(s)) = Upper(t.lit)
              THEN MatchFrom(Tail(toks), Tail(s), groups)
              ELSE NoMatch
         ELSE TryAlts(Regex(t.dir), 1, toks, s, groups)

TryAlts(alts, k, toks, s, groups) ==
    IF k > Len(alts) THEN NoMatch
    ELSE IF MatchAlt(alts[k], s)
         THEN LET n == Len(alts[k])
                  r == MatchFrom(Tail(toks), SubSeq(s, n + 1, Len(s)),
                                 Append(groups, [dir |-> Head(toks).dir,
                                                 text |-> SubSeq(s, 1, n)]))
              IN  IF r.ok THEN r ELSE TryAlts(alts, k + 1, toks, s, groups)
         ELSE TryAlts(alts, k + 1, toks, s, groups)

HasGroup(groups, d) == \E i \in 1..Len(groups) : groups[i].dir = d

Group(groups, d) == groups[CHOOSE i \in 1..Len(groups) : groups[i].dir = d].text

(***************************************************************************)
(* datetime: the proleptic Gregorian calendar of the datetime module.      *)
(***************************************************************************)
IsLeap(y) == y % 4 = 0 /\ (y % 100 # 0 \/ y % 400 = 0)

DaysInYear(y) == IF IsLeap(y) THEN 366 ELSE 365

DaysInMonth(y, m) ==
    IF m = 2 THEN (IF IsLeap(y) THEN 29 ELSE 28)
    ELSE IF m \in {4, 6, 9, 11} THEN 30 ELSE 31

RECURSIVE DaysBeforeMonth(_, _)
DaysBeforeMonth(y, m) ==
    IF m = 1 THEN 0 ELSE DaysBeforeMonth(y, m - 1) + DaysInMonth(y, m - 1)

DaysBeforeYear(y) ==
    (y - 1) * 365 + ((y - 1) \div 4) - ((y - 1) \div 100) + ((y - 1) \div 400)

\* date.toordinal()
ToOrdinal(y, m, d) == DaysBeforeYear(y) + DaysBeforeMonth(y, m) + d

ValueError(why) == [kind |-> "error", type |-> "ValueError", msg |-> why]

Returned(v) == [kind |-> "ok", value |-> v]

\* datetime(year, month, day, hour, minute, second, microsecond): the fields
\* are range-checked by the constructor.
DateTime(y, m, d, hh, mm, ss, us) ==
    IF y < 1 \/ y > 9999 THEN ValueError("year is out of range")
    ELSE IF m < 1 \/ m > 12 THEN ValueError("month must be in 1..12")
    ELSE IF d < 1 \/ d > DaysInMonth(y, m)
         THEN ValueError("day is out of range for month")
    ELSE IF hh < 0 \/ hh > 23 THEN ValueError("hour must be in 0..23")
    ELSE IF mm < 0 \/ mm > 59 THEN ValueError("minute must be in 0..59")
    ELSE IF ss < 0 \/ ss > 59 THEN ValueError("second must be in 0..59")
    ELSE Returned([year |-> y, month |-> m, day |-> d, hour |-> hh,
                   minute |-> mm, second |-> ss, microsecond |-> us,
                   tzinfo |-> "None"])

\* date.fromordinal((julian - 1) + date(year, 1, 1).toordinal()), for the
\* julian in 1..366 that %j admits: a day of this year, or the first of the next.
FromJulian(y, julian) ==
    IF julian <= DaysInYear(y)
    THEN LET m == CHOOSE k \in 1..12 :
                      /\ DaysBeforeMonth(y, k) < julian
                      /\ julian <= DaysBeforeMonth(y, k) + DaysInMonth(y, k)
         IN  [year |-> y, month |-> m, day |-> julian - DaysBeforeMonth(y, m)]
    ELSE [year |-> y + 1, month |-> 1, day |-> julian - DaysInYear(y)]

RECURSIVE Pow10(_)
Pow10(n) == IF n = 0 THEN 1 ELSE 10 * Pow10(n - 1)

\* len(data_string) != found.end(): input left over after the match.
UnconvertedIgnored(rest) == FALSE

Unconverted(rest) == rest # <<>>

\* datetime.strptime(data_string, format)
strptime(data_string, format) ==
    LET found == MatchFrom(format, data_string, <<>>) IN
    IF ~found.ok THEN ValueError("does not match format")
    ELSE IF Unconverted(found.rest)
         THEN ValueError("unconverted data remains")
    ELSE LET g == found.groups
             year == IntOf(Group(g, "Y"))
             hour == IntOf(Group(g, "H"))
             minute == IntOf(Group(g, "M"))
             second == IntOf(Group(g, "S"))
             fraction == IF HasGroup(g, "f")
                         THEN IntOf(Group(g, "f")) * Pow10(6 - Len(Group(g, "f")))
                         ELSE 0
         IN  IF HasGroup(g, "j")
             THEN IF year < 1 \/ year > 9999
                  THEN ValueError("year is out of range")
                  ELSE LET dr == FromJulian(year, IntOf(Group(g, "j")))
                       IN  DateTime(dr.year, dr.month, dr.day, hour, minute,
                                    second, fraction)
             ELSE DateTime(year, IntOf(Group(g, "m")), IntOf(Group(g, "d")),
                           hour, minute, second, fraction)

\* datetime.replace(tzinfo=...)
ReplaceTz(dt, tz) == [dt EXCEPT !.tzinfo = tz]

FormatEndsWithZ(fmt) == fmt[Len(fmt)] = Lit("Z")

\* parse_approximate_time(time_str): the first format that parses wins.
RECURSIVE TryFormats(_, _)
TryFormats(time_str, k) ==
    IF k > Len(formats)
    THEN [kind |-> "error", type |-> "ValueError",
          msg |-> "Time data '{time_str}' does not match any of the known formats",
          time_str |-> time_str]
    ELSE LET parsed_time == strptime(time_str, formats[k]) IN
         IF parsed_time.kind = "ok"
         THEN IF FormatEndsWithZ(formats[k])
              THEN Returned(ReplaceTz(parsed_time.value, "UTC"))
              ELSE parsed_time
         ELSE TryFormats(time_str, k + 1)

parse_approximate_time(time_str) == TryFormats(time_str, 1)

(***************************************************************************)
(* timedelta: normalised so that 0 <= seconds < 86400 and                  *)
(* 0 <= microseconds < 1000000; compared as the triple.                    *)
(***************************************************************************)
TimeDelta(d, s, us) ==
    LET s2 == s + (us \div 1000000)
    IN  [days |-> d + (s2 \div 86400), seconds |-> s2 % 86400,
         microseconds |-> us % 1000000]

TimeDeltaMax == [days |-> 999999999, seconds |-> 86399, microseconds |-> 999999]

TypeError(why) == [kind |-> "error", type |-> "TypeError", msg |-> why]

SecondOfDay(dt) == dt.hour * 3600 + dt.minute * 60 + dt.second

\* datetime.__sub__: both operands aware (here both UTC) or both naive.
DateTimeSub(a, b) ==
    IF (a.tzinfo = "None") # (b.tzinfo = "None")
    THEN TypeError("can't subtract offset-naive and offset-aware datetimes")
    ELSE Returned(TimeDelta(ToOrdinal(a.year, a.month, a.day)
                              - ToOrdinal(b.year, b.month, b.day),
                            SecondOfDay(a) - SecondOfDay(b),
                            a.microsecond - b.microsecond))

\* timedelta.__abs__
TimeDeltaAbs(t) ==
    IF t.days < 0 THEN TimeDelta(-t.days, -t.seconds, -t.microseconds) ELSE t

\* timedelta.__lt__
TimeDeltaLt(a, b) ==
    \/ a.days < b.days
    \/ a.days = b.days /\ a.seconds < b.seconds
    \/ a.days = b.days /\ a.seconds = b.seconds /\ a.microseconds < b.microseconds

(***************************************************************************)
(* The functions of iss_tracker.py.                                        *)
(***************************************************************************)
NoneValue == [kind |-> "none"]

\* math.sqrt, on the perfect squares the sampled velocities give.
Sqrt(n) == CHOOSE r \in 0..n : r * r = n

calculate_speed_unrooted(x_dot, y_dot, z_dot) ==
    x_dot * x_dot + y_dot * y_dot + z_dot * z_dot

calculate_speed(x_dot, y_dot, z_dot) ==
    Sqrt(x_dot * x_dot + y_dot * y_dot + z_dot * z_dot)

\* One data_point of parse_oem_data, from one stateVector element.
DataPoint(sv) ==
    [epoch |-> sv.EPOCH, x |-> sv.X, y |-> sv.Y, z |-> sv.Z,
     x_dot |-> sv.X_DOT, y_dot |-> sv.Y_DOT, z_dot |-> sv.Z_DOT]

\* parse_oem_data(xml_content): the list is returned before the request's
\* offset and limit are read, so request_args decides nothing.
parse_oem_data(xml_content, request_args) ==
    Returned([i \in 1..Len(xml_content) |-> DataPoint(xml_content[i])])

\* closest_time.replace(tzinfo=timezone.utc)
AsUtcUntagged(closest_time) == closest_time

AsUtc(closest_time) == ReplaceTz(closest_time, "UTC")

\* time_diff < min_time_diff
CloserOrEqual(time_diff, min_time_diff) == ~TimeDeltaLt(min_time_diff, time_diff)

Closer(time_diff, min_time_diff) == TimeDeltaLt(time_diff, min_time_diff)

\* The end of get_instantaneous_speed: closest_ref is the index of the element
\* closest_vector refers to, 0 while it is None.
ClosestOrZero(d, closest_ref) ==
    IF closest_ref = 0
    THEN Returned([vector |-> NoneValue, ref |-> 0, speed |-> 0])
    ELSE Returned([vector |-> d[closest_ref], ref |-> closest_ref,
                   speed |-> calculate_speed(d[closest_ref].x_dot,
                                             d[closest_ref].y_dot,
                                             d[closest_ref].z_dot)])

ClosestOrRaise(d, closest_ref) ==
    IF closest_ref = 0
    THEN ValueError("Could not find the closest vector.")
    ELSE Returned([vector |-> d[closest_ref], ref |-> closest_ref,
                   speed |-> calculate_speed(d[closest_ref].x_dot,
                                             d[closest_ref].y_dot,
                                             d[closest_ref].z_dot)])

\* The loop of get_instantaneous_speed over data, from element i on.
RECURSIVE ScanPoints(_, _, _, _, _)
ScanPoints(d, i, closest_time, closest_ref, min_time_diff) ==
    IF i > Len(d) THEN ClosestOrRaise(d, closest_ref)
    ELSE LET parsed == parse_approximate_time(d[i].epoch) IN
         IF parsed.kind = "error" THEN parsed
         ELSE LET point_time == IF parsed.value.tzinfo = "None"
                                THEN ReplaceTz(parsed.value, "UTC")
                                ELSE parsed.value
                  diff == DateTimeSub(point_time, closest_time)
              IN  IF diff.kind = "error" THEN diff
                  ELSE LET time_diff == TimeDeltaAbs(diff.value) IN
                       IF Closer(time_diff, min_time_diff)
                       THEN ScanPoints(d, i + 1, closest_time, i, time_diff)
                       ELSE ScanPoints(d, i + 1, closest_time, closest_ref,
                                       min_time_diff)

get_instantaneous_speed(d, closest_time) ==
    ScanPoints(d, 1, AsUtc(closest_time), 0, TimeDeltaMax)

RECURSIVE Gcd(_, _)
Gcd(a, b) == IF b = 0 THEN a ELSE Gcd(b, a % b)

\* total / n in floating point, kept as the fraction in lowest terms.
Quotient(total, n) ==
    IF n = 0 THEN [kind |-> "error", type |-> "ZeroDivisionError",
                   msg |-> "division by zero"]
    ELSE Returned([num |-> total \div Gcd(total, n), den |-> n \div Gcd(total, n)])

\* sum(calculate_speed(...) for point in data)
RECURSIVE TotalSpeed(_, _)
TotalSpeed(d, i) ==
    IF i > Len(d) THEN 0
    ELSE calculate_speed(d[i].x_dot, d[i].y_dot, d[i].z_dot) + TotalSpeed(d, i + 1)

get_average_speed(d) == Quotient(TotalSpeed(d, 1), Len(d))

\* What print_data_range prints: one line for a non-empty list, nothing otherwise.
PrintedRangeReversed(d) ==
    IF d # <<>>
    THEN << <<"The range of data is from ", d[Len(d)].epoch, " to ", d[1].epoch>> >>
    ELSE <<>>

PrintedRange(d) ==
    IF d # <<>>
    THEN << <<"The range of data is from ", d[1].epoch, " to ", d[Len(d)].epoch>> >>
    ELSE <<>>

\* compute_location_astropy(sv): sv['x'] on an Element raises.
compute_location_astropy(sv) == TypeError("element indices must be integers")

UnboundLocalError(name) ==
    [kind |-> "error", type |-> "UnboundLocalError", msg |-> name]

\* epoch_location(epoch): the first pass of the loop either matches, and
\* compute_location_astropy raises, or reads location before any assignment;
\* with no stateVector the return after the loop reads state_vector unbound.
\* The 'Epoch not found', 404 return follows another return.
epoch_location(root, epoch) ==
    IF Len(root) = 0 THEN UnboundLocalError("state_vector")
    ELSE IF root[1].EPOCH = epoch THEN compute_location_astropy(root[1])
    ELSE UnboundLocalError("location")

(***************************************************************************)
(* The inputs: upstream documents, target instants, query parameters.      *)
(***************************************************************************)
Y2024 == <<"2", "0", "2", "4">>

Midnight == <<"T", "0", "0", ":", "0", "0", ":", "0", "0">>

Feb23 == Y2024 \o <<"-", "0", "2", "-", "2", "3">>

Day054 == Y2024 \o <<"-", "0", "5", "4">>

EpochA == Feb23 \o Midnight \o <<"Z">>

EpochB == Y2024 \o <<"-", "0", "2", "-", "2", "4">> \o Midnight \o <<"Z">>

EpochC == Day054 \o <<"T", "0", "0", ":", "0", "0", ":", "0", "2", "Z">>

EpochE == Day054 \o Midnight \o <<".", "0", "0", "0", "Z">>

EpochF == Feb23 \o <<"T", "0", "0", ":", "0", "0", ":", "0", "1", ".", "5", "Z">>

EpochBad == Y2024 \o <<"-", "9", "9", "-", "9", "9">> \o Midnight \o <<"Z">>

EpochAbsent == Y2024 \o <<"-", "0", "0", "1">> \o Midnight \o <<"Z">>

StateVector(e, p, vx, vy, vz) ==
    [EPOCH |-> e, X |-> p, Y |-> p, Z |-> p, X_DOT |-> vx, Y_DOT |-> vy, Z_DOT |-> vz]

\* The stateVector elements a document is made of; the first two are the
\* test suite's SAMPLE_XML.
Samples ==
    { StateVector(EpochA, 678, 1, 0, 0),
      StateVector(EpochB, 700, 0, 1, 0),
      StateVector(EpochC, 701, 3, 4, 0),
      StateVector(EpochE, 702, 0, 0, 0),
      StateVector(EpochF, 703, 2, -3, 6),
      StateVector(EpochBad, 704, 1, 2, 2) }

Documents == UNION {[1..n -> Samples] : n \in 0..MaxLen}

Instant(mo, dd, hh, mm, ss, us, tz) ==
    [year |-> 2024, month |-> mo, day |-> dd, hour |-> hh, minute |-> mm,
     second |-> ss, microsecond |-> us, tzinfo |-> tz]

\* Target instants, naive and UTC: between, on, before and after the samples.
Targets ==
    { Instant(2, 23, 0, 0, 1, 0, tz) : tz \in {"None", "UTC"} }
    \cup { Instant(2, 23, 0, 0, 0, 750000, tz) : tz \in {"None", "UTC"} }
    \cup { Instant(2, 23, 12, 0, 0, 0, tz) : tz \in {"None", "UTC"} }
    \cup { Instant(2, 25, 0, 0, 0, 0, tz) : tz \in {"None", "UTC"} }
    \cup { Instant(1, 31, 23, 59, 59, 999999, tz) : tz \in {"None", "UTC"} }

Offsets == {-1, 0, 1}

Limits == {-1, 0, 10}

QueriedEpochs == {sv.EPOCH : sv \in Samples} \cup {EpochAbsent}

NoArgs == [none |-> TRUE]

(***************************************************************************)
(* The state machine: a caller makes one call at a time and takes its      *)
(* result.                                                                 *)
(***************************************************************************)
Init ==
    /\ xml \in Documents
    /\ data = <<>>
    /\ loaded = FALSE
    /\ pc = "idle"
    /\ op = "none"
    /\ args = NoArgs
    /\ result = NoneValue
    /\ stdout = <<>>

\* data = parse_oem_data(xml_content)
Call_parse_oem_data ==
    /\ pc = "idle"
    /\ \E offset \in Offsets, limit \in Limits :
          LET r == parse_oem_data(xml, [offset |-> offset, limit |-> limit]) IN
          /\ args' = [offset |-> offset, limit |-> limit]
          /\ result' = r
          /\ data' = IF r.kind = "ok" THEN r.value ELSE data
          /\ loaded' = (loaded \/ r.kind = "ok")
    /\ op' = "parse_oem_data"
    /\ pc' = "returned"
    /\ stdout' = <<>>
    /\ UNCHANGED xml

Call_get_instantaneous_speed ==
    /\ pc = "idle"
    /\ loaded
    /\ \E closest_time \in Targets :
          /\ args' = [closest_time |-> closest_time]
          /\ result' = get_instantaneous_speed(data, closest_time)
    /\ op' = "get_instantaneous_speed"
    /\ pc' = "returned"
    /\ stdout' = <<>>
    /\ UNCHANGED <<xml, data, loaded>>

Call_get_average_speed ==
    /\ pc = "idle"
    /\ loaded
    /\ args' = NoArgs
    /\ result' = get_average_speed(data)
    /\ op' = "get_average_speed"
    /\ pc' = "returned"
    /\ stdout' = <<>>
    /\ UNCHANGED <<xml, data, loaded>>

Call_print_data_range_popping ==
    /\ pc = "idle"
    /\ loaded
    /\ args' = NoArgs
    /\ result' = NoneValue
    /\ stdout' = PrintedRange(data)
    /\ data' = IF data = <<>> THEN data ELSE Tail(data)
    /\ op' = "print_data_range"
    /\ pc' = "returned"
    /\ UNCHANGED <<xml, loaded>>

Call_print_data_range ==
    /\ pc = "idle"
    /\ loaded
    /\ args' = NoArgs
    /\ result' = NoneValue
    /\ stdout' = PrintedRange(data)
    /\ op' = "print_data_range"
    /\ pc' = "returned"
    /\ UNCHANGED <<xml, data, loaded>>

\* epoch_location(epoch) reads the document afresh (get_xml_data).
Call_epoch_location ==
    /\ pc = "idle"
    /\ \E epoch \in QueriedEpochs :
          /\ args' = [epoch |-> epoch]
          /\ result' = epoch_location(xml, epoch)
    /\ op' = "epoch_location"
    /\ pc' = "returned"
    /\ stdout' = <<>>
    /\ UNCHANGED <<xml, data, loaded>>

\* The caller has taken the result and is free to call again.
Return ==
    /\ pc = "returned"
    /\ pc' = "idle"
    /\ op' = "none"
    /\ args' = NoArgs
    /\ result' = NoneValue
    /\ stdout' = <<>>
    /\ UNCHANGED <<xml, data, loaded>>

Next ==
    \/ Call_parse_oem_data
    \/ Call_get_instantaneous_speed
    \/ Call_get_average_speed
    \/ Call_print_data_range
    \/ Call_epoch_location
    \/ Return

Spec == Init /\ [][Next]_vars

(***************************************************************************)
(* parse_approximate_time on its own, over texts around the four layouts:  *)
(* well-formed ones, and those with one character replaced or dropped, or  *)
(* with characters appended.                                               *)
(***************************************************************************)
BaseTexts ==
    { Y2024 \o <<"-", "0", "6", "7", "T", "0", "8", ":", "2", "8", ":", "0", "0",
                 ".", "0", "0", "0", "Z">>,
      Y2024 \o <<"-", "3", "6", "6", "T", "2", "3", ":", "5", "9", ":", "5", "9", "Z">>,
      EpochF,
      EpochA }

EditChars == {"0", "1", "3", "6", "9", "-", "T", "Z", ":", ".", "x", "z", "t", " "}

TrailChars == {"x", "Z", "0", " "}

Trailers == UNION {[1..n -> TrailChars] : n \in 1..MaxTrail}

TimeStrs ==
    BaseTexts
    \cup {EpochBad, <<>>}
    \cup {[b EXCEPT ![i] = c] : <<b, i, c>> \in
             {t \in BaseTexts \X (1..30) \X EditChars : t[2] <= Len(t[1])}}
    \cup {SubSeq(t[1], 1, t[2] - 1) \o SubSeq(t[1], t[2] + 1, Len(t[1])) :
             t \in {u \in BaseTexts \X (1..30) : u[2] <= Len(u[1])}}
    \cup {b \o t : b \in BaseTexts, t \in Trailers}

InitParse ==
    /\ xml = <<>>
    /\ data = <<>>
    /\ loaded = FALSE
    /\ pc = "idle"
    /\ op = "none"
    /\ args = NoArgs
    /\ result = NoneValue
    /\ stdout = <<>>

Call_parse_approximate_time ==
    /\ pc = "idle"
    /\ \E time_str \in TimeStrs :
          /\ args' = [time_str |-> time_str]
          /\ result' = parse_approximate_time(time_str)
    /\ op' = "parse_approximate_time"
    /\ pc' = "returned"
    /\ stdout' = <<>>
    /\ UNCHANGED <<xml, data, loaded>>

NextParse ==
    \/ Call_parse_approximate_time
    \/ Return

SpecParse == InitParse /\ [][NextParse]_vars

(***************************************************************************)
(* What the claims speak of.                                               *)
(***************************************************************************)
Called(name) == pc = "returned" /\ op = name

\* Every element's raw epoch text parses: the list is a trajectory, each
\* state vector having an epoch instant.
EpochsParse(d) ==
    \A i \in 1..Len(d) : parse_approximate_time(d[i].epoch).kind = "ok"

EpochOf(point) == parse_approximate_time(point.epoch).value

\* |a - t| as <<whole seconds, microseconds>>, from the fields of the two
\* instants read on one time axis.
AbsGap(a, t) ==
    LET sec == (ToOrdinal(a.year, a.month, a.day)
                  - ToOrdinal(t.year, t.month, t.day)) * 86400
               + SecondOfDay(a) - SecondOfDay(t)
        us == a.microsecond - t.microsecond
        neg == sec < 0 \/ (sec = 0 /\ us < 0)
        sec1 == IF neg THEN -sec ELSE sec
        us1 == IF neg THEN -us ELSE us
    IN  IF us1 < 0 THEN <<sec1 - 1, us1 + 1000000>> ELSE <<sec1, us1>>

GapLeq(g, h) == g[1] < h[1] \/ (g[1] = h[1] /\ g[2] <= h[2])

\* Element k of d is nearest to t, and no element before it is as near.
NearestFirst(d, t, k) ==
    /\ k \in 1..Len(d)
    /\ \A j \in 1..Len(d) : GapLeq(AbsGap(EpochOf(d[k]), t), AbsGap(EpochOf(d[j]), t))
    /\ \A j \in 1..(k - 1) : AbsGap(EpochOf(d[j]), t) # AbsGap(EpochOf(d[k]), t)

\* C1: for a non-empty trajectory and a UTC target, get_instantaneous_speed
\* returns an element of the trajectory no farther in time from the target than
\* any other element, and among equidistant elements the one of smallest index.
C1_NearestFirstOnTies ==
    (/\ Called("get_instantaneous_speed")
     /\ args.closest_time.tzinfo = "UTC"
     /\ data # <<>>
     /\ EpochsParse(data))
    => /\ result.kind = "ok"
       /\ NearestFirst(data, args.closest_time, result.value.ref)
       /\ result.value.vector = data[result.value.ref]

\* A UTC lookup that returned the earlier of two different, equidistant elements.
C1_Witness ==
    /\ Called("get_instantaneous_speed")
    /\ args.closest_time.tzinfo = "UTC"
    /\ result.kind = "ok"
    /\ \E j \in (result.value.ref + 1)..Len(data) :
          /\ data[j] # data[result.value.ref]
          /\ AbsGap(EpochOf(data[j]), args.closest_time)
               = AbsGap(EpochOf(data[result.value.ref]), args.closest_time)
          /\ AbsGap(EpochOf(data[j]), args.closest_time)[1] > 0

\* C2, as claimed: get_instantaneous_speed with a naive target fails whatever
\* the trajectory, with NaiveTimestamp where the trajectory itself is sound, and
\* never reads the naive instant as UTC to return a state vector.
C2_NaiveTargetRejected ==
    (Called("get_instantaneous_speed") /\ args.closest_time.tzinfo = "None")
    => /\ result.kind = "error"
       /\ (data # <<>> /\ EpochsParse(data)) => result.type = "NaiveTimestamp"

\* C2, amended: get_instantaneous_speed tags a naive target as UTC and goes on:
\* on a non-empty trajectory it returns the element nearest to the target's
\* fields read as UTC, first index on ties, and it never fails with
\* NaiveTimestamp.
C2_NaiveTargetReadAsUtc ==
    (Called("get_instantaneous_speed") /\ args.closest_time.tzinfo = "None")
    => /\ result.kind = "error" => result.type # "NaiveTimestamp"
       /\ (data # <<>> /\ EpochsParse(data))
            => /\ result.kind = "ok"
               /\ NearestFirst(data, args.closest_time, result.value.ref)
               /\ result.value.vector = data[result.value.ref]

\* The test suite's case: a naive target one second after the first of two
\* elements, which is returned.
C2_Witness ==
    /\ Called("get_instantaneous_speed")
    /\ args.closest_time = Instant(2, 23, 0, 0, 1, 0, "None")
    /\ Len(data) = 2
    /\ data[1].epoch = EpochA
    /\ data[2].epoch = EpochB
    /\ result.kind = "ok"
    /\ result.value.ref = 1

\* C3: get_instantaneous_speed on a trajectory of zero elements fails, for every
\* target, with the error it keeps for having found no vector (the spec's
\* EmptyTrajectory); it returns neither a state vector nor a speed.
C3_EmptyLookupFails ==
    (Called("get_instantaneous_speed") /\ data = <<>>)
    => /\ result.kind = "error"
       /\ result.type = "ValueError"
       /\ result.msg = "Could not find the closest vector."

C3_Witness ==
    /\ Called("get_instantaneous_speed")
    /\ loaded
    /\ Len(xml) = 0
    /\ data = <<>>
    /\ result.kind = "error"

\* The sum of the elements' speeds, the last element first.
RECURSIVE SpeedSum(_)
SpeedSum(d) ==
    IF d = <<>> THEN 0
    ELSE LET p == d[Len(d)] IN
         SpeedSum(SubSeq(d, 1, Len(d) - 1))
           + Sqrt(p.x_dot * p.x_dot + p.y_dot * p.y_dot + p.z_dot * p.z_dot)

\* C4: get_average_speed returns the sum of the elements' speeds divided by
\* their number for a non-empty trajectory, and for an empty one fails with
\* EmptyTrajectory rather than dividing by zero.
C4_MeanOrEmptyTrajectory ==
    Called("get_average_speed")
    => IF data # <<>>
       THEN /\ result.kind = "ok"
            /\ result.value.num * Len(data) = SpeedSum(data) * result.value.den
       ELSE result.kind = "error" /\ result.type # "ZeroDivisionError"

\* C5, as claimed: print_data_range yields the raw epoch text of the first and
\* of the last element for a non-empty trajectory, and fails with
\* EmptyTrajectory on one of zero elements.
C5_RangeOrEmptyTrajectory ==
    Called("print_data_range")
    => IF data # <<>>
       THEN /\ Len(stdout) = 1
            /\ stdout[1][2] = data[1].epoch
            /\ stdout[1][4] = data[Len(data)].epoch
       ELSE result.kind = "error"

\* C5, amended: print_data_range returns nothing; for a non-empty trajectory it
\* prints one line naming the raw epoch text of the first and of the last element
\* in stored order, and for an empty one it prints nothing and raises nothing.
C5_RangePrintedInStoredOrder ==
    Called("print_data_range")
    => /\ result = NoneValue
       /\ IF data # <<>>
          THEN /\ Len(stdout) = 1
               /\ stdout[1][2] = data[1].epoch
               /\ stdout[1][4] = data[Len(data)].epoch
          ELSE stdout = <<>>

\* A trajectory stored latest first: the line names the later epoch first.
C5_Witness ==
    /\ Called("print_data_range")
    /\ Len(data) = 3
    /\ data[1].epoch = EpochB
    /\ data[3].epoch = EpochA
    /\ stdout # <<>>
    /\ stdout[1][2] = EpochB

\* A run of digits whose value lies in lo..hi.
IsDigits(w) == w # <<>> /\ \A i \in 1..Len(w) : w[i] \in Digits

NumIn(w, lo, hi) == IsDigits(w) /\ IntOf(w) \in lo..hi

Cut(s, a, n) == SubSeq(s, a, a + n - 1)

Sep(s, a, c) == Upper(s[a]) = c

\* A day of the month: 1..31 in one or two digits, or a blank and a digit.
DayIn(w) ==
    \/ NumIn(w, 1, 31)
    \/ Len(w) = 2 /\ w[1] = " " /\ w[2] \in Digits \ {"0"}

\* From the T at index a to the end of s: hour, minute, second in one or two
\* digits, a fraction of wf digits when wf > 0, and the closing Z.
ClockTail(s, a, wH, wM, wS, wf) ==
    LET h == a + 1
        c1 == h + wH
        c2 == c1 + 1 + wM
        e == c2 + 1 + wS
        z == IF wf = 0 THEN e ELSE e + 1 + wf
    IN  /\ Len(s) = z
        /\ Sep(s, a, "T")
        /\ NumIn(Cut(s, h, wH), 0, 23)
        /\ Sep(s, c1, ":")
        /\ NumIn(Cut(s, c1 + 1, wM), 0, 59)
        /\ Sep(s, c2, ":")
        /\ NumIn(Cut(s, c2 + 1, wS), 0, 61)
        /\ (wf > 0 => Sep(s, e, ".") /\ IsDigits(Cut(s, e + 1, wf)))
        /\ Sep(s, z, "Z")

\* s is, from its first character to its last, year, day of the year and time
\* (layouts 1 and 2).
OrdinalLayout(s) ==
    \E wj \in 1..3, wH \in 1..2, wM \in 1..2, wS \in 1..2, wf \in 0..6 :
        /\ ClockTail(s, 6 + wj, wH, wM, wS, wf)
        /\ IsDigits(Cut(s, 1, 4))
        /\ Sep(s, 5, "-")
        /\ NumIn(Cut(s, 6, wj), 1, 366)

\* s is, from its first character to its last, year, month, day and time
\* (layouts 3 and 4).
CalendarLayout(s) ==
    \E wm \in 1..2, wd \in 1..2, wH \in 1..2, wM \in 1..2, wS \in 1..2, wf \in 0..6 :
        /\ ClockTail(s, 7 + wm + wd, wH, wM, wS, wf)
        /\ IsDigits(Cut(s, 1, 4))
        /\ Sep(s, 5, "-")
        /\ NumIn(Cut(s, 6, wm), 1, 12)
        /\ Sep(s, 6 + wm, "-")
        /\ DayIn(Cut(s, 7 + wm, wd))

MatchesSomeLayout(s) == OrdinalLayout(s) \/ CalendarLayout(s)

\* C6: parse_approximate_time fails, with an error naming the input, for every
\* string that is not as a whole an instance of one of the four layouts, a
\* layout followed by further characters included; it returns an instant, a UTC
\* one, only for a string that some layout matches whole.
C6_OnlyWholeLayoutParses ==
    Called("parse_approximate_time")
    => /\ ~MatchesSomeLayout(args.time_str)
            => /\ result.kind = "error"
               /\ result.type = "ValueError"
               /\ result.time_str = args.time_str
       /\ result.kind = "ok"
            => MatchesSomeLayout(args.time_str) /\ result.value.tzinfo = "UTC"
       /\ result.kind = "error" => result.time_str = args.time_str

\* A text that parses, followed by further characters, was refused.
C6_Witness ==
    /\ Called("parse_approximate_time")
    /\ result.kind = "error"
    /\ \E n \in 1..(Len(args.time_str) - 1) :
          /\ MatchesSomeLayout(SubSeq(args.time_str, 1, n))
          /\ parse_approximate_time(SubSeq(args.time_str, 1, n)).kind = "ok"

\* C7: parse_oem_data under a request with a negative offset or a negative
\* limit fails, and returns no list of epochs.
C7_NegativePaginationRejected ==
    (Called("parse_oem_data") /\ (args.offset < 0 \/ args.limit < 0))
    => result.kind = "error"

\* C8: epoch_location for an epoch text that no state vector of the document
\* carries ends in the 404 'Epoch not found' response, the empty document
\* included, and in no error raised on the way.
C8_AbsentEpochNotFound ==
    (/\ Called("epoch_location")
     /\ \A i \in 1..Len(xml) : xml[i].EPOCH # args.epoch)
    => /\ result.kind = "ok"
       /\ result.value = [body |-> "Epoch not found", status |-> 404]

\* C9: the speed get_instantaneous_speed returns is that of the very element it
\* returns: the non-negative root of the sum of the squares of its velocity
\* components, 0 for the zero velocity.
C9_SpeedOfReturnedVector ==
    (Called("get_instantaneous_speed") /\ result.kind = "ok")
    => LET v == data[result.value.ref] IN
       /\ result.value.vector = v
       /\ result.value.speed >= 0
       /\ result.value.speed * result.value.speed
            = v.x_dot * v.x_dot + v.y_dot * v.y_dot + v.z_dot * v.z_dot
       /\ (v.x_dot = 0 /\ v.y_dot = 0 /\ v.z_dot = 0) => result.value.speed = 0

\* The element returned is not the last one scanned, and its speed, 7, is that
\* of no other element.
C9_Witness ==
    /\ Called("get_instantaneous_speed")
    /\ result.kind = "ok"
    /\ result.value.speed = 7
    /\ result.value.ref < Len(data)
    /\ \A j \in 1..Len(data) :
          j # result.value.ref => data[j].x_dot # data[result.value.ref].x_dot

QueryOps == {"get_instantaneous_speed", "get_average_speed", "print_data_range"}

\* C10: no call of get_instantaneous_speed, get_average_speed or
\* print_data_range, failed ones included, changes the trajectory: its length,
\* its order and every field of every element stay as they were.
C10_TrajectoryUnchanged == [][op' \in QueryOps => data' = data]_vars

\* A query that ended in an error on a trajectory of three elements, which is
\* still the list parse_oem_data built.
C10_Witness ==
    /\ pc = "returned"
    /\ op \in QueryOps
    /\ result.kind = "error"
    /\ Len(data) = 3
    /\ data = parse_oem_data(xml, NoArgs).value

====
